---- MODULE Spec2Model ----
(***************************************************************************)
(* JTAG to SPI bridge of lattice_bscan_spi.py (class JTAGtoSPI), as a      *)
(* synchronous state machine stepped by the edges of the JTAG test clock.  *)
(* Signals are bits (0 or 1); registers keep their declared width.         *)
(* A state holds the registers and the input levels currently applied;     *)
(* the combinational outputs are operators over the state.                 *)
(* Two configurations: "sim" (no pins: sel, capture, shift are test inputs) *)
(* and "hw" (pins and jtagg=True, as LatticeECP5 builds it: jtag.sel is a   *)
(* register of the selection FSM, fed by the JTAGG primitive).             *)
(***************************************************************************)
EXTENDS Integers, Sequences, FiniteSets, TLC

\* Largest configured header width explored (the `bits` argument).
MaxW == 4

\* Longest first pass (in rising edges) the replay observer records.
MaxTrace == 6

BIT == {0, 1}

RECURSIVE Pow2(_)
Pow2(n) == IF n = 0 THEN 1 ELSE 2 * Pow2(n - 1)

\* nmigen.utils.bits_for for n >= 0: one bit for 0, else floor(log2 n) + 1.
RECURSIVE bits_for(_)
bits_for(n) == IF n <= 1 THEN 1 ELSE 1 + bits_for(n \div 2)

VARIABLES
    W,              \* self._bits, fixed at construction
    mode,           \* "sim": spi_pins is None; "hw": spi_pins given, jtagg=True
    jtag_tck,       \* jtag.tck level
    jtag_sel,       \* jtag.sel: an input in "sim", a sync register in "hw"
    jtag_shift,     \* jtag.shift (JSHIFT in "hw")
    jtag_capture,   \* jtag.capture (driven only in "sim")
    jtag_tdi,       \* jtag.tdi
    miso_i,         \* miso.i
    JCE1,           \* jtag_sel1_capture_or_shift, from the primitive ("hw")
    JRTI1,          \* jtag_rti1, from the primitive ("hw")
    JRSTN,          \* jtag_rst_n, from the primitive ("hw")
    fsm_state,      \* bridge FSM: "IDLE", "HEAD", "XFER"
    bits,           \* Signal(W, reset_less=True)
    head,           \* Signal(range(W), reset=W-1)
    sel_fsm_state,  \* selection FSM of _detect_jtag_state: "IDLE", "TLRST"
    \* observation of the run (history, written by the rising edge only)
    ev,             \* what the last rising edge did to the bridge FSM
    cnt,            \* rising edges spent so far in the current HEAD/XFER phase
    lastLen,        \* length in edges of the phase the last edge closed
    hdrN,           \* accumulator value held on entry to XFER
    hdrBits,        \* tdi bits sampled in HEAD in this transaction
    miso_prev,      \* miso.i as sampled by the last rising edge
    missed,         \* in this wait of the selection FSM, the latch sampled JRTI1 = 0
    \* replay observer: a transaction and its immediate repetition
    rec,            \* observer switched on (fixed)
    pass,           \* 0: waiting, 1: recording a first pass, 2: comparing the second
    trace1,         \* first pass: per rising edge, tdi sampled and cs_n.o after it
    idx,            \* position of the second pass in trace1
    replayDiff      \* the last edge of the second pass gave another cs_n.o

\* Xilinx bridge of xilinx_bscan_spi.py (class JTAG2SPI), one copy per
\* instance: Ultrascale builds two, j2s0 on JTAG chain 1 and j2s1 on chain 2.
\* A second run of the bridge FSM, clocked by the same edges and fed the same
\* input levels as the first; it may start from another accumulator content.
VARIABLES
    fsm_state2,     \* FSM state of the second run
    bits2,          \* accumulator of the second run
    head2,          \* header counter of the second run
    diff0           \* the two runs entered the current transaction with different accumulators

VARIABLES
    x_sel,          \* jtag.sel of each instance
    x_shift,        \* jtag.shift
    x_clk,          \* jtag.clk
    x_tdi,          \* jtag.tdi
    x_miso_i,       \* miso.i
    x_tdo,          \* jtag.tdo, register of the rise domain
    x_cs_n_o,       \* cs_n.o, register of the fall domain (reset 1)
    \* observation of the run
    x_sawOne,       \* a falling edge sampled tdi = 1 since one last sampled en = 0
    x_ev            \* the last step: its kind and its instance

Inst == {0, 1}

xinputs == <<x_sel, x_shift, x_tdi, x_miso_i>>
xvars == <<x_sel, x_shift, x_clk, x_tdi, x_miso_i, x_tdo, x_cs_n_o, x_sawOne, x_ev>>

regs == <<fsm_state, bits, head, sel_fsm_state>>
inputs == <<jtag_sel, jtag_shift, jtag_capture, jtag_tdi, miso_i, JCE1, JRTI1, JRSTN>>
hist == <<ev, cnt, lastLen, hdrN, hdrBits, miso_prev, missed>>
replay == <<pass, trace1, idx, replayDiff>>
run2 == <<fsm_state2, bits2, head2, diff0>>
vars == <<W, mode, jtag_tck, regs, inputs, hist, rec, replay, run2, xvars>>

----------------------------------------------------------------------------
\* Combinational signals

\* Width of head: Shape.cast(range(len(bits))) is bits_for(len(bits) - 1)
\* bits, so one bit for W = 1 and W = 2, two for W = 3 and W = 4.
HeadWidth(w) == bits_for(w - 1)

\* reset=len(bits)-1
HeadResetShort(w) == IF w > 1 THEN w - 2 ELSE 0
HeadReset(w) == w - 1

SelCaptureGatedBySel ==
    jtag_sel * (IF mode = "hw" THEN JCE1 * (1 - jtag_shift) ELSE jtag_capture)
jtag_sel1_capture ==
    IF mode = "hw" THEN JCE1 * (1 - jtag_shift)
    ELSE jtag_sel * jtag_capture

jtag_sel1_shift ==
    IF mode = "hw" THEN JCE1 * jtag_shift
    ELSE jtag_sel * jtag_shift

ResetUnlessShift == jtag_sel1_capture * (1 - jtag_sel1_shift)
cd_sync_rst == jtag_sel1_capture

OutputEnableGated == jtag_sel * jtag_shift
OutputEnable == jtag_sel

cs_n_oe == OutputEnable
clk_oe  == OutputEnable
mosi_oe == OutputEnable

TdoRegistered == miso_prev
jtag_tdo == miso_i
clk_o == 1 - jtag_tck
mosi_o == jtag_tdi

ongoing(s) == fsm_state = s

ChipSelectWhileHead == IF ongoing("XFER") \/ ongoing("HEAD") THEN 0 ELSE 1
ChipSelect == IF ongoing("XFER") THEN 0 ELSE 1

cs_n_o == ChipSelect

\* Pin directions given at construction.
PinDir == [cs_n |-> "oe", clk |-> "oe", mosi |-> "oe", miso |-> "i"]

HasOutput(pin) == PinDir[pin] \in {"o", "oe", "io"}

----------------------------------------------------------------------------
\* Register transfer of the bridge FSM (one rising edge, reset aside)

IdleTriggerAnyTdi(selshift, tdi) == selshift = 1
IdleTrigger(selshift, tdi) == selshift = 1 /\ tdi = 1

\* bits.eq(Cat(tdi, bits)), truncated to the width of bits
HeadShiftMsbIn(b, tdi, w) == (b \div 2) + tdi * Pow2(w - 1)
HeadShift(b, tdi, w) == (2 * b + tdi) % Pow2(w)

\* head.eq(head - 1), truncated to the width of head
HeadDecWhenShifting(h, w) ==
    IF jtag_sel1_shift = 1 THEN (h - 1) % Pow2(HeadWidth(w)) ELSE h
HeadDec(h, w) == (h - 1) % Pow2(HeadWidth(w))

HeadDone(h) == h = 0

\* bits.eq(bits - 1), truncated to the width of bits
XferHold(b, w) == b
XferDec(b, w) == (b - 1) % Pow2(w)

XferDoneAtOne(b) == b <= 1
XferDoneOrNotShifting(b) == b = 0 \/ jtag_sel1_shift = 0
XferDone(b) == b = 0

\* The FSM statements applied to a state st, header counter h, accumulator b
FsmStep(st, h, b) ==
    CASE st = "IDLE" ->
            IF IdleTrigger(jtag_sel1_shift, jtag_tdi) THEN "HEAD" ELSE "IDLE"
      [] st = "HEAD" ->
            IF HeadDone(h) THEN "XFER" ELSE "HEAD"
      [] st = "XFER" ->
            IF XferDone(b) THEN "IDLE" ELSE "XFER"

BitsStep(st, b) ==
    CASE st = "IDLE" -> b
      [] st = "HEAD" -> HeadShift(b, jtag_tdi, W)
      [] st = "XFER" -> XferDec(b, W)

HeadStep(st, h) ==
    IF st = "HEAD" THEN HeadDec(h, W) ELSE h

FsmNext == FsmStep(fsm_state, head, bits)

BitsNext == BitsStep(fsm_state, bits)

HeadNext == HeadStep(fsm_state, head)

\* Selection FSM (hardware-backed mode only), in the same sync domain
SelFsmNextSingleSample ==
    CASE sel_fsm_state = "IDLE" ->
            IF JRSTN = 0 THEN "TLRST" ELSE "IDLE"
      [] sel_fsm_state = "TLRST" -> "IDLE"

SelFsmNext ==
    CASE sel_fsm_state = "IDLE" ->
            IF JRSTN = 0 THEN "TLRST" ELSE "IDLE"
      [] sel_fsm_state = "TLRST" ->
            IF jtag_sel = 0 THEN "TLRST" ELSE "IDLE"

\* The edge on which state TLRST assigns jtag_rti1 to jtag.sel
SelSampling(rst) ==
    mode = "hw" /\ rst = 0 /\ sel_fsm_state = "TLRST" /\ jtag_sel = 0

SelNext ==
    CASE sel_fsm_state = "IDLE" ->
            IF JRSTN = 0 THEN 0 ELSE jtag_sel
      [] sel_fsm_state = "TLRST" ->
            IF jtag_sel = 0 THEN JRTI1 ELSE jtag_sel

----------------------------------------------------------------------------
\* Input levels the environment applies for the next period

\* Outputs of the JTAGG primitive: the TAP is in one state at a time, so at
\* most one of reset (JRSTN low), Run-Test/Idle with ER1 (JRTI1), and a DR
\* scan (JCE1 for chain 1, JSHIFT while shifting) is reported.
TapOutputs ==
    { t \in [JRSTN : BIT, JRTI1 : BIT, JCE1 : BIT, JSHIFT : BIT] :
        /\ t.JRSTN = 0 => (t.JRTI1 = 0 /\ t.JCE1 = 0 /\ t.JSHIFT = 0)
        /\ t.JRTI1 = 1 => (t.JCE1 = 0 /\ t.JSHIFT = 0) }

NewInputs ==
    /\ jtag_tdi' \in BIT
    /\ miso_i' \in BIT
    /\ IF mode = "hw"
       THEN /\ \E t \in TapOutputs :
                 /\ JRSTN' = t.JRSTN
                 /\ JRTI1' = t.JRTI1
                 /\ JCE1' = t.JCE1
                 /\ jtag_shift' = t.JSHIFT
            /\ jtag_capture' = 0
       ELSE /\ jtag_shift' \in BIT
            /\ jtag_capture' \in BIT
            /\ UNCHANGED <<JCE1, JRTI1, JRSTN>>

----------------------------------------------------------------------------
\* Xilinx bridge: combinational signals and the two clock domains

\* en.eq(jtag.sel & jtag.shift)
EnShiftOnly(i) == x_shift[i]
en(i) == x_sel[i] * x_shift[i]

\* cd_fall.rst.eq(~en)
cd_fall_rst(i) == 1 - en(i)

x_clk_oe(i)  == en(i)
x_cs_n_oe(i) == en(i)
x_mosi_oe(i) == en(i)
x_miso_oe(i) == 0
x_clk_o(i)   == x_clk[i]
x_mosi_o(i)  == x_tdi[i]

\* sync.fall: If(jtag.tdi, cs_n.o.eq(0)), under the reset of cd_fall
\* (cs_n.o.reset = 1)
CsFallFollowsTdi(i) ==
    IF cd_fall_rst(i) = 1 THEN 1 ELSE 1 - x_tdi[i]
CsFallNoReset(i) ==
    IF x_tdi[i] = 1 THEN 0 ELSE x_cs_n_o[i]
CsFall(i) ==
    IF cd_fall_rst(i) = 1 THEN 1
    ELSE IF x_tdi[i] = 1 THEN 0 ELSE x_cs_n_o[i]

\* sync.rise: jtag.tdo.eq(miso.i); cd_rise is reset_less
TdoRiseWhenEnabled(i) == IF en(i) = 1 THEN x_miso_i[i] ELSE 0
TdoRise(i) == x_miso_i[i]

\* The two BSCANE2 primitives of Ultrascale decode one instruction register:
\* at most one chain is selected.
SelPairs == { f \in [Inst -> BIT] : f[0] = 0 \/ f[1] = 0 }

\* The Xilinx bridges as built, before any clock edge.
XInit ==
    /\ x_sel \in SelPairs
    /\ x_shift \in [Inst -> BIT]
    /\ x_tdi \in [Inst -> BIT]
    /\ x_miso_i \in [Inst -> BIT]
    /\ x_clk = [i \in Inst |-> 0]
    /\ x_tdo = [i \in Inst |-> 0]
    /\ x_cs_n_o = [i \in Inst |-> 1]
    /\ x_sawOne = [i \in Inst |-> FALSE]
    /\ x_ev = [kind |-> "none", inst |-> 0]

\* No Xilinx bridge in the design (the Lattice specifications).
XilinxOff ==
    /\ x_sel = [i \in Inst |-> 0]
    /\ x_shift = [i \in Inst |-> 0]
    /\ x_tdi = [i \in Inst |-> 0]
    /\ x_miso_i = [i \in Inst |-> 0]
    /\ x_clk = [i \in Inst |-> 0]
    /\ x_tdo = [i \in Inst |-> 0]
    /\ x_cs_n_o = [i \in Inst |-> 1]
    /\ x_sawOne = [i \in Inst |-> FALSE]
    /\ x_ev = [kind |-> "none", inst |-> 0]

----------------------------------------------------------------------------

InitBase ==
    /\ W \in 1..MaxW
    /\ mode \in {"sim", "hw"}
    /\ jtag_tck = 0
    /\ fsm_state = "IDLE"
    /\ bits = 0
    /\ head = HeadReset(W)
    /\ sel_fsm_state = "IDLE"
    /\ jtag_tdi \in BIT
    /\ miso_i \in BIT
    /\ IF mode = "hw"
       THEN /\ jtag_sel = 0
            /\ jtag_capture = 0
            /\ \E t \in TapOutputs :
                 /\ JRSTN = t.JRSTN
                 /\ JRTI1 = t.JRTI1
                 /\ JCE1 = t.JCE1
                 /\ jtag_shift = t.JSHIFT
       ELSE /\ jtag_sel \in BIT
            /\ jtag_shift \in BIT
            /\ jtag_capture \in BIT
            /\ JCE1 = 0
            /\ JRTI1 = 0
            /\ JRSTN = 1
    /\ ev = "none"
    /\ cnt = 0
    /\ lastLen = 0
    /\ hdrN = 0
    /\ hdrBits = <<>>
    /\ miso_prev = 0
    /\ missed = FALSE
    /\ pass = 0
    /\ trace1 = <<>>
    /\ idx = 0
    /\ replayDiff = FALSE
    /\ fsm_state2 = "IDLE"
    /\ head2 = HeadReset(W)
    /\ diff0 = FALSE
    /\ XilinxOff

Init == InitBase /\ rec = FALSE /\ bits2 = bits

\* Two runs that differ in the accumulator only: bits is not reset, so a
\* bridge in IDLE with head = W - 1 can hold any value in it (a capture reset
\* in XFER leaves what the count had reached).
InitPair == InitBase /\ rec = FALSE /\ bits2 \in 0..(Pow2(W) - 1)

\* The simulation configuration with the replay observer on.
InitReplay == InitBase /\ rec = TRUE /\ mode = "sim" /\ bits2 = bits

\* No phase of the FSM is longer than 2^W edges (bits counts down from at
\* most 2^W - 1, head from less); the edge count saturates above that.
CntCap == Pow2(W) + 1

\* What a rising edge does to the bridge FSM, for the observation.
Event(rst, st, st2) ==
    CASE rst = 1 -> "rst"
      [] rst = 0 /\ st = "IDLE" /\ st2 = "HEAD" -> "trig"
      [] rst = 0 /\ st = "HEAD" /\ st2 = "XFER" -> "enter"
      [] rst = 0 /\ st = "XFER" /\ st2 = "IDLE" -> "done"
      [] OTHER -> "step"

Observe(rst) ==
    LET e == Event(rst, fsm_state, fsm_state') IN
    /\ ev' = e
    /\ cnt' = IF e = "step" /\ fsm_state # "IDLE"
              THEN (IF cnt < CntCap THEN cnt + 1 ELSE cnt)
              ELSE 0
    /\ lastLen' = IF e \in {"enter", "done"} THEN cnt + 1 ELSE 0
    /\ hdrN' = CASE e = "enter" -> bits'
                 [] e \in {"step", "done"} /\ fsm_state = "XFER" -> hdrN
                 [] OTHER -> 0
    /\ hdrBits' = IF e \in {"step", "enter"} /\ fsm_state = "HEAD"
                  THEN Append(hdrBits, jtag_tdi)
                  ELSE <<>>
    /\ miso_prev' = miso_i
    /\ missed' = (SelSampling(rst) /\ JRSTN = 1 /\ (missed \/ JRTI1 = 0))

\* Replay observer. A first pass is recorded from the edge that samples the
\* trigger to the edge that returns to IDLE; the second pass starts on the
\* very next edge and is compared while it is fed the same tdi bits. A pass
\* is dropped when the chain is not selected and shifting, or on a capture
\* reset.
ReplayStop == pass' = 0 /\ trace1' = <<>> /\ idx' = 0

ObserveReplay(rst) ==
    LET e == Event(rst, fsm_state, fsm_state')
        ok == jtag_sel = 1 /\ jtag_sel1_shift = 1 /\ rst = 0
        entry == [tdi |-> mosi_o, cs |-> cs_n_o']
    IN
    IF ~rec THEN UNCHANGED replay
    ELSE CASE pass = 0 ->
                /\ replayDiff' = FALSE
                /\ IF e = "trig" /\ ok
                   THEN pass' = 1 /\ trace1' = <<entry>> /\ idx' = 0
                   ELSE ReplayStop
           [] pass = 1 ->
                /\ replayDiff' = FALSE
                /\ IF ~ok \/ Len(trace1) >= MaxTrace
                   THEN ReplayStop
                   ELSE /\ trace1' = Append(trace1, entry)
                        /\ pass' = IF e = "done" THEN 2 ELSE 1
                        /\ idx' = IF e = "done" THEN 1 ELSE 0
           [] pass = 2 ->
                IF ~ok \/ mosi_o # trace1[idx].tdi
                THEN replayDiff' = FALSE /\ ReplayStop
                ELSE /\ replayDiff' = (cs_n_o' # trace1[idx].cs)
                     /\ IF idx = Len(trace1) \/ replayDiff'
                        THEN ReplayStop
                        ELSE pass' = 2 /\ trace1' = trace1 /\ idx' = idx + 1

\* Rising edge of TCK: the sync domain (clk = jtag.tck, rst = jtag_sel1_capture)
\* samples the input levels applied since the last falling edge.
Rise ==
    /\ jtag_tck = 0
    /\ jtag_tck' = 1
    /\ LET rst == cd_sync_rst IN
       /\ fsm_state' = IF rst = 1 THEN "IDLE" ELSE FsmNext
       /\ head' = IF rst = 1 THEN HeadReset(W) ELSE HeadNext
       /\ bits' = BitsNext
       /\ IF mode = "hw"
          THEN /\ sel_fsm_state' = IF rst = 1 THEN "IDLE" ELSE SelFsmNext
               /\ jtag_sel' = IF rst = 1 THEN 0 ELSE SelNext
          ELSE UNCHANGED <<sel_fsm_state, jtag_sel>>
       /\ fsm_state2' = IF rst = 1 THEN "IDLE" ELSE FsmStep(fsm_state2, head2, bits2)
       /\ head2' = IF rst = 1 THEN HeadReset(W) ELSE HeadStep(fsm_state2, head2)
       /\ bits2' = BitsStep(fsm_state2, bits2)
       /\ diff0' = CASE Event(rst, fsm_state, fsm_state') = "trig" -> bits2 # bits
                     [] Event(rst, fsm_state, fsm_state') = "rst" -> FALSE
                     [] OTHER -> diff0
       /\ Observe(rst)
       /\ ObserveReplay(rst)
    /\ UNCHANGED <<W, mode, rec, jtag_shift, jtag_capture, jtag_tdi, miso_i, JCE1, JRTI1, JRSTN>>
    /\ UNCHANGED xvars

\* Falling edge of TCK: no register of the bridge is clocked by it; the
\* environment applies the input levels of the next period.
Fall ==
    /\ jtag_tck = 1
    /\ jtag_tck' = 0
    /\ IF mode = "hw" THEN jtag_sel' = jtag_sel ELSE jtag_sel' \in BIT
    /\ NewInputs
    /\ UNCHANGED <<W, mode, rec, regs, hist, replay, run2, xvars>>

Next == Rise \/ Fall

Spec == Init /\ [][Next]_vars

SpecReplay == InitReplay /\ [][Next]_vars

SpecPair == InitPair /\ [][Next]_vars

\* TCK keeps toggling: an edge is always due (a rising one when TCK is low,
\* a falling one when it is high) and the next edge always comes.
SpecToggling == Init /\ [][Next]_vars /\ WF_vars(Next)

----------------------------------------------------------------------------
\* Xilinx bridges: the steps

lvars == <<W, mode, jtag_tck, regs, inputs, hist, rec, replay, run2>>

\* No Lattice bridge in the design (the Xilinx specification).
LatticeOff ==
    /\ W = 1 /\ mode = "sim" /\ rec = FALSE
    /\ jtag_tck = 0 /\ jtag_sel = 0 /\ jtag_shift = 0 /\ jtag_capture = 0
    /\ jtag_tdi = 0 /\ miso_i = 0 /\ JCE1 = 0 /\ JRTI1 = 0 /\ JRSTN = 1
    /\ fsm_state = "IDLE" /\ bits = 0 /\ head = HeadReset(1)
    /\ sel_fsm_state = "IDLE"
    /\ ev = "none" /\ cnt = 0 /\ lastLen = 0 /\ hdrN = 0 /\ hdrBits = <<>>
    /\ miso_prev = 0
    /\ missed = FALSE
    /\ pass = 0 /\ trace1 = <<>> /\ idx = 0 /\ replayDiff = FALSE
    /\ fsm_state2 = "IDLE" /\ bits2 = 0 /\ head2 = HeadReset(1)
    /\ diff0 = FALSE

\* Rising edge of instance i's jtag.clk: the rise domain.
XRise(i) ==
    /\ x_clk[i] = 0
    /\ x_clk' = [x_clk EXCEPT ![i] = 1]
    /\ x_tdo' = [x_tdo EXCEPT ![i] = TdoRise(i)]
    /\ x_ev' = [kind |-> "rise", inst |-> i]
    /\ UNCHANGED <<xinputs, x_cs_n_o, x_sawOne, lvars>>

\* Falling edge of instance i's jtag.clk: the fall domain (clk = ~jtag.clk).
XFall(i) ==
    /\ x_clk[i] = 1
    /\ x_clk' = [x_clk EXCEPT ![i] = 0]
    /\ x_cs_n_o' = [x_cs_n_o EXCEPT ![i] = CsFall(i)]
    /\ x_sawOne' = [x_sawOne EXCEPT ![i] =
                        en(i) = 1 /\ (x_sawOne[i] \/ x_tdi[i] = 1)]
    /\ x_ev' = [kind |-> "fall", inst |-> i]
    /\ UNCHANGED <<xinputs, x_tdo, lvars>>

\* The primitive of instance i changes its outputs, and the flash its miso,
\* at any time between edges.
XEnv(i) ==
    /\ \E s \in BIT, sh \in BIT, d \in BIT, m \in BIT :
         /\ x_sel' = [x_sel EXCEPT ![i] = s]
         /\ x_sel' \in SelPairs
         /\ x_shift' = [x_shift EXCEPT ![i] = sh]
         /\ x_tdi' = [x_tdi EXCEPT ![i] = d]
         /\ x_miso_i' = [x_miso_i EXCEPT ![i] = m]
    /\ xinputs' # xinputs
    /\ x_ev' = [kind |-> "env", inst |-> i]
    /\ UNCHANGED <<x_clk, x_tdo, x_cs_n_o, x_sawOne, lvars>>

XNext == \E i \in Inst : XRise(i) \/ XFall(i) \/ XEnv(i)

XilinxInit == XInit /\ LatticeOff

SpecXilinx == XilinxInit /\ [][XNext]_vars

TypeOK ==
    /\ W \in 1..MaxW
    /\ mode \in {"sim", "hw"}
    /\ fsm_state \in {"IDLE", "HEAD", "XFER"}
    /\ bits \in 0..(Pow2(W) - 1)
    /\ head \in 0..(Pow2(HeadWidth(W)) - 1)
    /\ sel_fsm_state \in {"IDLE", "TLRST"}
    /\ jtag_tck \in BIT /\ jtag_sel \in BIT /\ jtag_shift \in BIT
    /\ jtag_capture \in BIT /\ jtag_tdi \in BIT /\ miso_i \in BIT
    /\ missed \in BOOLEAN
    /\ fsm_state2 \in {"IDLE", "HEAD", "XFER"}
    /\ bits2 \in 0..(Pow2(W) - 1)
    /\ head2 \in 0..(Pow2(HeadWidth(W)) - 1)
    /\ diff0 \in BOOLEAN

----------------------------------------------------------------------------
\* Value of a bit sequence read most significant bit first.
RECURSIVE SeqValue(_)
SeqValue(s) ==
    IF s = <<>> THEN 0
    ELSE 2 * SeqValue(SubSeq(s, 1, Len(s) - 1)) + s[Len(s)]

LastN(s, n) == SubSeq(s, Len(s) - n + 1, Len(s))

----------------------------------------------------------------------------
\* C1: the chip-select output cs_n.o is low exactly when the bridge FSM is
\* in XFER; in IDLE and in HEAD it is high, whatever the inputs are.
C1_CsLowIffXfer ==
    /\ (cs_n_o = 0) <=> (fsm_state = "XFER")
    /\ fsm_state \in {"IDLE", "HEAD"} => cs_n_o = 1

C1_Witness ==
    /\ fsm_state = "XFER" /\ cs_n_o = 0 /\ cnt = 2
    /\ jtag_sel = 0 /\ jtag_shift = 0 /\ jtag_tdi = 1

\* C2 as stated: a transfer that runs to its count spends exactly hdrN
\* cycles in XFER (11 for a header of 11, none for a header of 0).
C2_Original ==
    ev = "done" => lastLen = hdrN

\* C2 amended: with header value N and no capture reset, the FSM spends
\* exactly N + 1 cycles in XFER with cs_n.o low, counting the accumulator
\* down from N to 0, and is then in IDLE with cs_n.o high; a header of 11
\* gives 12 cycles and a header of 0 gives one cycle.
C2_XferLength ==
    /\ fsm_state = "XFER" =>
          /\ cs_n_o = 0
          /\ cnt <= hdrN
          /\ bits = hdrN - cnt
    /\ ev = "done" =>
          /\ lastLen = hdrN + 1
          /\ fsm_state = "IDLE"
          /\ cs_n_o = 1

C2_Witness ==
    W = 4 /\ ev = "done" /\ hdrN = 11 /\ lastLen = 12

\* C3 as stated: the value held on entry to XFER is the triggering 1
\* followed by the next W-1 tdi bits, most significant bit first.
C3_Original ==
    ev = "enter" => hdrN = SeqValue(<<1>> \o SubSeq(hdrBits, 1, W - 1))

\* C3 amended: the value held on entry to XFER is made of the last W tdi
\* bits sampled in HEAD, most significant bit first; the triggering 1 is
\* sampled in IDLE and is not among them.
C3_HeaderValue ==
    ev = "enter" =>
        /\ Len(hdrBits) = lastLen
        /\ Len(hdrBits) >= W
        /\ hdrN = SeqValue(LastN(hdrBits, W))

C3_Witness ==
    W = 4 /\ ev = "enter" /\ hdrBits = <<1, 0, 1, 1>> /\ hdrN = 11

\* A step that is a rising edge of TCK.
RiseEdge == jtag_tck = 0 /\ jtag_tck' = 1

AllOe(v) == cs_n_oe = v /\ clk_oe = v /\ mosi_oe = v

\* C4 as stated: for every W, XFER is entered exactly W rising edges after
\* the edge that sampled the trigger in IDLE (no capture reset in between).
C4_Original ==
    ev = "enter" => lastLen = W

\* C5 as stated: a rising edge in XFER that samples selected_shift = 0
\* leaves cs_n.o high and the three output enables off.
C5_Original ==
    [][(RiseEdge /\ fsm_state = "XFER" /\ jtag_sel1_shift = 0)
          => (cs_n_o' = 1 /\ AllOe(0)')]_vars

\* C5 amended: selected_shift = 0 does not truncate a transfer. A rising
\* edge in XFER without capture reset that samples selected_shift = 0 counts
\* like any other: the FSM stays in XFER with cs_n.o low until the
\* accumulator is 0. The output enables follow sel alone: off at once when
\* sel is 0, still on when only shift dropped.
C5_NoTruncation ==
    [][(RiseEdge /\ fsm_state = "XFER" /\ jtag_sel1_shift = 0 /\ cd_sync_rst = 0)
          => /\ AllOe(jtag_sel)
             /\ AllOe(jtag_sel)'
             /\ bits # 0 => (fsm_state' = "XFER" /\ cs_n_o' = 0 /\ bits' = bits - 1)
             /\ bits = 0 => (fsm_state' = "IDLE" /\ cs_n_o' = 1)]_vars

\* selected_shift sampled 0 on cycle 3 of a transfer of header value 11.
C5_Witness ==
    /\ W = 4 /\ jtag_tck = 1 /\ fsm_state = "XFER" /\ hdrN = 11 /\ cnt = 3
    /\ jtag_sel1_shift = 0 /\ jtag_sel = 0
    /\ cs_n_o = 0 /\ AllOe(0)

\* C6 as stated: in XFER, the output enables are off whenever sel is 0, and
\* (hardware-backed mode) off after the rising edge that samples TAP reset
\* asserted (JRSTN = 0, the TAP not in Run-Test/Idle), whatever the state of
\* the selection FSM.
C6_Original ==
    [][/\ (fsm_state = "XFER" /\ jtag_sel = 0) => AllOe(0)
       /\ (RiseEdge /\ mode = "hw" /\ fsm_state = "XFER" /\ JRSTN = 0 /\ JRTI1 = 0)
             => AllOe(0)']_vars

\* C7 as stated: a transaction replayed at once with the same tdi bits, the
\* chain selected and shifting throughout and no capture reset, gives at
\* every edge the cs_n.o of the first pass (mosi is tdi in both passes).
C7_Original ==
    ~replayDiff

\* C8 as stated: the header counter stays within 0..W-1.
C8_Original ==
    0 <= head /\ head <= W - 1

\* C9 as stated: in XFER, tdo is the miso level of one TCK period earlier
\* (the level the previous rising edge sampled).
C9_Original ==
    fsm_state = "XFER" => jtag_tdo = miso_prev

\* C9 amended: the bridge connects miso to tdo combinationally: at every
\* instant, in XFER as in any other state, tdo is the present miso level,
\* with no delay in the bridge.
C9_TdoIsMiso ==
    jtag_tdo = miso_i

C9_Witness ==
    fsm_state = "XFER" /\ cnt >= 1 /\ miso_prev = 0 /\ miso_i = 1 /\ jtag_tdo = 1

\* C10: the output enables of cs_n, clk and mosi equal sel at every instant,
\* whatever shift, capture, tdi and the FSM state are, and the miso pin has
\* no output driver.
C10_OeIsSel ==
    /\ AllOe(jtag_sel)
    /\ ~HasOutput("miso")
    /\ HasOutput("cs_n") /\ HasOutput("clk") /\ HasOutput("mosi")

C10_Witness ==
    /\ jtag_sel = 1 /\ jtag_shift = 0 /\ jtag_tdi = 0 /\ fsm_state = "HEAD"
    /\ AllOe(1)

----------------------------------------------------------------------------
\* Xilinx bridge

XRiseEdge(i) == x_clk[i] = 0 /\ x_clk'[i] = 1
XFallEdge(i) == x_clk[i] = 1 /\ x_clk'[i] = 0

XOe(i) == {x_cs_n_oe(i), x_clk_oe(i), x_mosi_oe(i), x_miso_oe(i)}

\* C11: the cs_n pin of a Xilinx bridge is driven low (output enable high,
\* cs_n.o = 0) only while sel and shift are both true and a falling edge of
\* jtag.clk has sampled tdi = 1 since the enable was last sampled false; as
\* long as no such edge has occurred, cs_n.o is high.
C11_CsDrivenLow ==
    \A i \in Inst :
        /\ (x_cs_n_oe(i) = 1 /\ x_cs_n_o[i] = 0)
              => (x_sel[i] = 1 /\ x_shift[i] = 1 /\ x_sawOne[i])
        /\ ~x_sawOne[i] => x_cs_n_o[i] = 1

C11_Witness ==
    /\ x_ev = [kind |-> "fall", inst |-> 0]
    /\ x_cs_n_oe(0) = 1 /\ x_cs_n_o[0] = 0 /\ x_tdi[0] = 0 /\ x_sawOne[0]

\* C12: with the two chains never selected at once, the two instances of
\* Ultrascale never both have an output enable asserted, whatever shift, tdi
\* and clock each of them sees.
C12_OneDriver ==
    ~(1 \in XOe(0) /\ 1 \in XOe(1))

C12_Witness ==
    /\ x_cs_n_oe(1) = 1 /\ x_clk_oe(1) = 1 /\ x_mosi_oe(1) = 1
    /\ x_shift[0] = 1 /\ x_tdi[0] = 1 /\ x_clk[0] = 1 /\ x_cs_n_o[1] = 0
    /\ XOe(0) = {0}

\* C18: cs_n.o changes only on falling edges of jtag.clk; once low it stays
\* low on every falling edge that samples the enable true, whatever tdi is,
\* and it is high after every falling edge that samples the enable false.
C18_CsHolds ==
    [][\A i \in Inst :
         /\ (XFallEdge(i) /\ en(i) = 1 /\ x_cs_n_o[i] = 0) => x_cs_n_o'[i] = 0
         /\ (XFallEdge(i) /\ en(i) = 0) => x_cs_n_o'[i] = 1
         /\ ~XFallEdge(i) => x_cs_n_o'[i] = x_cs_n_o[i]]_vars

C18_Witness ==
    /\ x_ev = [kind |-> "fall", inst |-> 1]
    /\ x_cs_n_o[1] = 0 /\ x_tdi[1] = 0 /\ en(1) = 1

\* C19: jtag.tdo changes only on rising edges of jtag.clk and after a rising
\* edge is the miso level that edge sampled, whether or not sel and shift
\* are asserted.
C19_TdoOnRise ==
    [][\A i \in Inst :
         /\ XRiseEdge(i) => x_tdo'[i] = x_miso_i[i]
         /\ ~XRiseEdge(i) => x_tdo'[i] = x_tdo[i]]_vars

C19_Witness ==
    /\ x_ev = [kind |-> "rise", inst |-> 1]
    /\ x_tdo[1] = 1 /\ x_miso_i[1] = 1 /\ x_sel[1] = 0 /\ x_shift[1] = 0

----------------------------------------------------------------------------
\* Lattice bridge: reset, trigger and the selection detector

\* C13: a rising TCK edge that samples selected_capture true leaves the FSM
\* in IDLE with head = W - 1, whatever the state and head were and whatever
\* selected_shift and tdi are at that edge (reset wins over the trigger).
C13_ResetWins ==
    [][(RiseEdge /\ jtag_sel1_capture = 1)
          => (fsm_state' = "IDLE" /\ head' = W - 1)]_vars

C13_Witness ==
    /\ ev = "rst" /\ jtag_tck = 1
    /\ jtag_sel1_capture = 1 /\ jtag_sel1_shift = 1 /\ jtag_tdi = 1
    /\ fsm_state = "IDLE" /\ head = W - 1 /\ bits # 0

\* C14: on a rising edge without capture reset the FSM goes from IDLE to
\* HEAD if and only if selected_shift and tdi are both 1 at that edge;
\* otherwise the state, head and bits are unchanged.
C14_IdleTrigger ==
    [][(RiseEdge /\ cd_sync_rst = 0 /\ fsm_state = "IDLE")
          => /\ fsm_state' = "HEAD" <=> (jtag_sel1_shift = 1 /\ jtag_tdi = 1)
             /\ fsm_state' \in {"IDLE", "HEAD"}
             /\ ~(jtag_sel1_shift = 1 /\ jtag_tdi = 1)
                  => UNCHANGED <<fsm_state, head, bits>>]_vars

C14_Witness ==
    /\ ev = "step" /\ jtag_tck = 1 /\ fsm_state = "IDLE"
    /\ jtag_sel1_shift = 1 /\ jtag_tdi = 0 /\ bits # 0

\* C15 (as claimed): in hardware-backed mode a rising edge that finds
\* jtag.sel = 1 and the TAP reset not asserted leaves jtag.sel at 1.
C15_Original ==
    [][(RiseEdge /\ mode = "hw" /\ jtag_sel = 1 /\ JRSTN = 1)
          => jtag_sel' = 1]_vars

\* C17 (as claimed): neither derived flag is true while jtag.sel is false.
C17_Original ==
    jtag_sel = 0 => (jtag_sel1_capture = 0 /\ jtag_sel1_shift = 0)

\* C17: in simulation mode the derived flags are jtag.sel AND capture and
\* jtag.sel AND shift of the current input levels, so neither is true while
\* jtag.sel is false; in hardware-backed mode they are JCE1 AND NOT JSHIFT
\* and JCE1 AND JSHIFT of the primitive, whatever the jtag.sel latch holds,
\* and never both true.
C17_Flags ==
    /\ mode = "sim" =>
          /\ jtag_sel1_capture = (IF jtag_sel = 1 /\ jtag_capture = 1 THEN 1 ELSE 0)
          /\ jtag_sel1_shift = (IF jtag_sel = 1 /\ jtag_shift = 1 THEN 1 ELSE 0)
          /\ jtag_sel = 0 => (jtag_sel1_capture = 0 /\ jtag_sel1_shift = 0)
    /\ mode = "hw" =>
          /\ jtag_sel1_capture = (IF JCE1 = 1 /\ jtag_shift = 0 THEN 1 ELSE 0)
          /\ jtag_sel1_shift = (IF JCE1 = 1 /\ jtag_shift = 1 THEN 1 ELSE 0)
          /\ ~(jtag_sel1_capture = 1 /\ jtag_sel1_shift = 1)

C17_Witness ==
    /\ mode = "hw" /\ jtag_tck = 1 /\ jtag_sel = 0
    /\ jtag_sel1_shift = 1 /\ fsm_state = "XFER"

\* C16 (as claimed): once the latch has sampled JRTI1 = 0 after a TAP
\* reset, no edge without TAP reset sets it.
C16_Original ==
    [][(RiseEdge /\ mode = "hw" /\ missed /\ jtag_sel = 0 /\ JRSTN = 1)
          => jtag_sel' = 0]_vars

\* C16: a TAP reset sampled in IDLE of the selection FSM clears jtag.sel
\* and moves to TLRST; there, on every rising edge without capture reset
\* that finds jtag.sel = 0, jtag.sel takes the JRTI1 of that edge and the
\* FSM stays in TLRST, so the line is sampled again on each edge until it is
\* 1; jtag.sel goes from 0 to 1 on no other edge.
C16_Resampled ==
    [][RiseEdge /\ mode = "hw" =>
         /\ (cd_sync_rst = 0 /\ sel_fsm_state = "IDLE" /\ JRSTN = 0)
               => (jtag_sel' = 0 /\ sel_fsm_state' = "TLRST")
         /\ SelSampling(cd_sync_rst)
               => (jtag_sel' = JRTI1 /\ sel_fsm_state' = "TLRST")
         /\ (jtag_sel = 0 /\ jtag_sel' = 1)
               => (SelSampling(cd_sync_rst) /\ JRTI1 = 1)]_vars

C16_Witness ==
    mode = "hw" /\ jtag_tck = 1 /\ missed /\ jtag_sel = 1 /\ JRTI1 = 1

\* C20: the FSM state is always one of IDLE, HEAD, XFER, the next state is
\* defined and one of the three for every state and input levels, and while
\* TCK keeps toggling the FSM is back in IDLE after every HEAD or XFER, for
\* every input sequence.
C20_TotalAndEnds ==
    /\ [](/\ fsm_state \in {"IDLE", "HEAD", "XFER"}
          /\ FsmNext \in {"IDLE", "HEAD", "XFER"}
          /\ (ENABLED Rise \/ ENABLED Fall))
    /\ (fsm_state \in {"HEAD", "XFER"}) ~> (fsm_state = "IDLE")

C20_Witness ==
    /\ ev = "done" /\ fsm_state = "IDLE" /\ lastLen = Pow2(W) /\ W >= 3
    /\ jtag_sel1_shift = 0 /\ cd_sync_rst = 0

----------------------------------------------------------------------------
\* Lattice bridge: what a transaction depends on

\* cs_n.o of the second run
cs_n_o2 == IF fsm_state2 = "XFER" THEN 0 ELSE 1

\* C21: two runs that start from different accumulator contents and see the
\* same inputs have the same cs_n.o after every edge: they are in the same
\* FSM state with the same header counter, and in XFER they hold the same
\* remaining count, so the time spent in XFER is set by the tdi bits of HEAD
\* alone.
C21_SameCsTrace ==
    /\ cs_n_o2 = cs_n_o
    /\ fsm_state2 = fsm_state
    /\ head2 = head
    /\ fsm_state = "XFER" => bits2 = bits

C21_Witness ==
    /\ ev = "done" /\ diff0 /\ W >= 2
    /\ hdrN >= 1 /\ lastLen = hdrN + 1
    /\ fsm_state2 = "IDLE" /\ cs_n_o2 = 1

\* C22: on a rising edge that finds the FSM in HEAD or XFER, the next state,
\* head and bits are given by the state, head, bits, tdi and selected_capture
\* alone: without capture reset HEAD shifts tdi in and counts head down, XFER
\* counts bits down, whatever jtag.sel and selected_shift are; a capture
\* reset goes to IDLE with head = W - 1.
C22_ProgressFrame ==
    [][(RiseEdge /\ fsm_state \in {"HEAD", "XFER"}) =>
         /\ bits' = IF fsm_state = "HEAD"
                    THEN (2 * bits + jtag_tdi) % Pow2(W)
                    ELSE (bits - 1) % Pow2(W)
         /\ IF jtag_sel1_capture = 1
            THEN fsm_state' = "IDLE" /\ head' = W - 1
            ELSE IF fsm_state = "HEAD"
            THEN /\ fsm_state' = (IF head = 0 THEN "XFER" ELSE "HEAD")
                 /\ head' = (head - 1) % Pow2(HeadWidth(W))
            ELSE /\ fsm_state' = (IF bits = 0 THEN "IDLE" ELSE "XFER")
                 /\ head' = head]_vars

C22_Witness ==
    /\ mode = "sim" /\ jtag_tck = 1 /\ jtag_sel = 0 /\ jtag_shift = 0
    /\ ev = "step" /\ fsm_state = "XFER" /\ cnt = 2 /\ bits = hdrN - 2
    /\ hdrBits = <<>>

====
